---- MODULE Spec2Model ----
(***************************************************************************)
(* Model of src/espcam/appfinal.py: the frame ingestion / processing       *)
(* pipeline of the hands-up detector.                                      *)
(*                                                                         *)
(*   upload()        Flask handler threads (threaded=True), one per call   *)
(*   frame_worker()  the single daemon worker thread                       *)
(*   process_frame() called by the worker, outside frame_lock              *)
(*   latest()        Flask handler threads reading latest_frame            *)
(*   send_email(), send_sms()  daemon threads spawned per alert            *)
(*                                                                         *)
(* A frame (numpy array) is a record [id, ann]: id names the upload that   *)
(* decoded it, ann counts how much of the skeleton overlay has been drawn  *)
(* on it (0 = raw, AnnFull = whole skeleton).  Every assignment to a       *)
(* shared variable in the source stores a fresh .copy(), so no two         *)
(* variables alias one array and frames are modelled by value.             *)
(* Landmark y coordinates are fixed-point hundredths (0.30 is 30).         *)
(***************************************************************************)
EXTENDS Integers, FiniteSets, TLC

\* ------------------------------------------------------------------ bounds
\* Number of uploads that decode to a frame during a run.
MaxFrames == 2

\* Handler threads serving POST /upload and GET /latest.jpg concurrently.
Uploaders == {"u1", "u2"}
Readers == {"r1"}

FrameIds == 1..MaxFrames
\* The values of int(time.time()) at which a frame is saved, renumbered
\* from 1: at most one new second per saved frame.
Seconds == 1..MaxFrames

\* ------------------------------------------------------------------ frames
\* draw_landmarks writes the overlay into the array in place, piece by
\* piece; AnnFull pieces make the complete skeleton.
AnnFull == 2

None == [id |-> -1, ann |-> 0]
\* np.zeros((480, 640, 3)): the blank image latest_frame starts with.
Blank == [id |-> 0, ann |-> 0]
RawFrame(i) == [id |-> i, ann |-> 0]
Frames == [id : FrameIds, ann : 0..AnnFull]
Complete(f) == f.ann \in {0, AnnFull}

Free == "free"

\* Request bodies: a JPEG, bytes that are no image, an empty body.
Inputs == {"jpeg", "garbage", "empty"}
\* cv2.imdecode: a frame for an image, None for bytes that are no image,
\* and an exception (cv2.error) for an empty buffer.
Decode(bytes) ==
    CASE bytes = "jpeg" -> "frame"
      [] bytes = "garbage" -> "none"
      [] OTHER -> "raise"

\* ------------------------------------------------------------------ poses
\* A pose: the y coordinates of the four landmarks the heuristic reads.
Pose(ls, lw, rs, rw) == [ls |-> ls, lw |-> lw, rs |-> rs, rw |-> rw]
NoPose == Pose(-1, -1, -1, -1)
Coord == {0, 10, 20, 28, 29, 30, 31, 35, 50, 100}
GridPoses == [ls : Coord, lw : Coord, rs : Coord, rw : Coord]
\* What the estimator reports in the pipeline runs: both hands up, or one
\* wrist below its shoulder.
PoseSamples == {Pose(30, 10, 30, 10), Pose(30, 10, 30, 35)}

Abs(x) == IF x < 0 THEN -x ELSE x

\* Faulty variant: a fixed margin of 0.05.
MarginFixed(s, w) == 50
\* 0.2 * abs(shoulder.y - wrist.y), in thousandths.
Margin(s, w) == 2 * Abs(s - w)

\* Faulty variant: a level arm counts as raised.
SideUpOrLevel(s, w) == 10 * w + Margin(s, w) <= 10 * s
\* wrist.y + margin < shoulder.y, both sides in thousandths.
SideUp(s, w) == 10 * w + Margin(s, w) < 10 * s

\* Faulty variant: "or" for "and".
HandsUpEither(p) == SideUp(p.ls, p.lw) \/ SideUp(p.rs, p.rw)
\* hands_up = (left side up) and (right side up)
HandsUp(p) == SideUp(p.ls, p.lw) /\ SideUp(p.rs, p.rw)

\* ------------------------------------------------------------------ state
VARIABLES
    slot,          \* latest_frame_to_process
    latest_frame,  \* latest_frame
    lock,          \* holder of frame_lock, or Free
    twilio,        \* TwilioClient is not None
    smsconf,       \* TWILIO_SID, TWILIO_AUTH, TWILIO_FROM and TWILIO_TO are all set
    nextId,        \* id of the next frame an upload decodes
    upc, ubytes, uframe, ret,      \* upload(): position, request.data, frame, response
    wpc, wframe, wpose, hands_up,  \* frame_worker()/process_frame(): position, frame, results, hands_up
    wseen,         \* history: id of the frame the worker's last check found in the slot
    email, sms,    \* send_email / send_sms thread of the alert of each cycle
    now,           \* int(time.time()), counted in seconds in which a frame was saved
    files,         \* UPLOAD_FOLDER: the frame held by frame_{ts}.jpg, 0 when no such file
    path,          \* frame_path of each cycle (its ts), 0 before the cycle's imwrite
    attached,      \* the frame send_email read from image_path, 0 before the read
    rpc, robs, rwin,               \* latest(): position, array loaded, values stored during the call
    lastPub,       \* history: id of the frame written by the last publish
    fate,          \* history: what became of each frame in the slot
    procCount      \* history: how many times the worker took each frame

uvars == <<upc, ubytes, uframe, ret>>
wvars == <<wpc, wframe, wpose, hands_up, wseen>>
avars == <<email, sms>>
fvars == <<now, files, path, attached>>
rvars == <<rpc, robs>>
hvars == <<lastPub, fate, procCount>>
vars == <<slot, latest_frame, lock, twilio, smsconf, nextId, upc, ubytes, uframe, ret,
          wpc, wframe, wpose, hands_up, wseen, email, sms, now, files, path, attached,
          rpc, robs, rwin,
          lastPub, fate, procCount>>

Init ==
    /\ slot = None
    /\ latest_frame = Blank
    /\ lock = Free
    /\ twilio \in BOOLEAN
    /\ smsconf \in BOOLEAN
    /\ nextId = 1
    /\ upc = [u \in Uploaders |-> "idle"]
    /\ ubytes = [u \in Uploaders |-> "none"]
    /\ uframe = [u \in Uploaders |-> None]
    /\ ret = [u \in Uploaders |-> "none"]
    /\ wpc = "check"
    /\ wframe = None
    /\ wpose = NoPose
    /\ hands_up = FALSE
    /\ wseen = 0
    /\ email = [a \in FrameIds |-> "none"]
    /\ sms = [a \in FrameIds |-> "none"]
    /\ now = 1
    /\ files = [t \in Seconds |-> 0]
    /\ path = [f \in FrameIds |-> 0]
    /\ attached = [a \in FrameIds |-> 0]
    /\ rpc = [r \in Readers |-> "idle"]
    /\ robs = [r \in Readers |-> None]
    /\ rwin = [r \in Readers |-> {}]
    /\ lastPub = 0
    /\ fate = [f \in FrameIds |-> "new"]
    /\ procCount = [f \in FrameIds |-> 0]

\* ------------------------------------------------------------------ upload()
\* Frame ids taken, counting the requests that are about to decode one.
FramesStarted ==
    (nextId - 1) + Cardinality({v \in Uploaders : upc[v] = "decode" /\ Decode(ubytes[v]) = "frame"})

\* A POST /upload request arrives with some body.
UploadBegin(u) ==
    /\ upc[u] = "idle"
    /\ \E b \in Inputs :
        /\ Decode(b) = "frame" => FramesStarted < MaxFrames
        /\ ubytes' = [ubytes EXCEPT ![u] = b]
    /\ upc' = [upc EXCEPT ![u] = "decode"]
    /\ ret' = [ret EXCEPT ![u] = "none"]
    /\ UNCHANGED <<slot, latest_frame, lock, twilio, smsconf, fvars, nextId, uframe, wvars,
                   avars, rvars, rwin, hvars>>

\* Faulty variant: the None test left out.
NotRaised(d) == d # "raise"
\* if frame is not None: taken when imdecode returned a frame.
IsFrame(d) == d = "frame"

\* cv2.imdecode and the test of its result: a frame goes on to the lock;
\* None and an exception both return ("Error", 500).
UploadDecode(u) ==
    /\ upc[u] = "decode"
    /\ ubytes' = [ubytes EXCEPT ![u] = "none"]
    /\ IF IsFrame(Decode(ubytes[u]))
       THEN /\ uframe' = [uframe EXCEPT ![u] =
                            IF Decode(ubytes[u]) = "frame" THEN RawFrame(nextId) ELSE None]
            /\ nextId' = IF Decode(ubytes[u]) = "frame" THEN nextId + 1 ELSE nextId
            /\ upc' = [upc EXCEPT ![u] = "wait"]
            /\ ret' = ret
       ELSE /\ ret' = [ret EXCEPT ![u] = "500"]
            /\ upc' = [upc EXCEPT ![u] = "idle"]
            /\ UNCHANGED <<uframe, nextId>>
    /\ UNCHANGED <<slot, latest_frame, lock, twilio, smsconf, fvars, wvars, avars, rvars,
                   rwin, hvars>>

\* with frame_lock: (entry)
UploadAcquire(u) ==
    /\ upc[u] = "wait"
    /\ lock = Free
    /\ lock' = u
    /\ upc' = [upc EXCEPT ![u] = "locked"]
    /\ UNCHANGED <<slot, latest_frame, twilio, smsconf, fvars, nextId, ubytes, uframe, ret,
                   wvars, avars, rvars, rwin, hvars>>

\* Faulty variant: a pending frame is kept and the new one dropped.
PublishKeepOldest(old, new) == IF old = None THEN new ELSE old
\* The value the publish leaves in the slot: newest wins.
Publish(old, new) == new

\* latest_frame_to_process = frame.copy(), the end of the with block, return "OK".
UploadWrite(u) ==
    /\ upc[u] = "locked"
    /\ slot' = Publish(slot, uframe[u])
    /\ lock' = IF lock = u THEN Free ELSE lock
    /\ ret' = [ret EXCEPT ![u] = "OK"]
    /\ upc' = [upc EXCEPT ![u] = "idle"]
    /\ uframe' = [uframe EXCEPT ![u] = None]
    /\ lastPub' = uframe[u].id
    /\ fate' = [f \in FrameIds |->
                  IF f = uframe[u].id THEN "published"
                  ELSE IF f = slot.id /\ slot'.id # f /\ procCount[f] = 0 THEN "overwritten"
                  ELSE fate[f]]
    /\ UNCHANGED <<latest_frame, twilio, smsconf, fvars, nextId, ubytes, wvars, avars,
                   rvars, rwin, procCount>>

\* ------------------------------------------------------------------ frame_worker()
\* Faulty variants: process_frame called inside the with block; the frame
\* saved inside the with block.
WorkerLockScopeWide ==
    {"copy", "clear", "persist", "estimate", "heur", "draw", "store_raw", "store",
     "spawn_email", "spawn_sms"}
WorkerLockScopePersist == {"copy", "clear", "persist"}
\* The worker positions that lie inside "with frame_lock:".
WorkerLockScope == {"copy", "clear"}

\* The worker moves to position pc; leaving the with block releases the lock.
WGoto(pc) ==
    /\ wpc' = pc
    /\ lock' = IF pc \in WorkerLockScope THEN "worker"
               ELSE IF lock = "worker" THEN Free ELSE lock

\* Faulty variant: the locked section is entered without the check.
SlotSeenAlways == TRUE
\* if latest_frame_to_process is not None: read without the lock.
SlotSeen == slot # None

\* The worker's check of the slot.
WCheck ==
    /\ wpc = "check"
    /\ WGoto(IF SlotSeen THEN "acquire" ELSE "sleep")
    /\ wseen' = IF slot # None THEN slot.id ELSE 0
    /\ UNCHANGED <<slot, latest_frame, twilio, smsconf, fvars, nextId, uvars, wframe,
                   wpose, hands_up, avars, rvars, rwin, hvars>>

\* Faulty variant: the loop ends when the slot was found empty.
AfterSleepExit == "dead"
\* while True: the position after time.sleep(0.01).
AfterSleep == "check"

\* time.sleep(0.01)
WSleep ==
    /\ wpc = "sleep"
    /\ WGoto(AfterSleep)
    /\ UNCHANGED <<wseen, slot, latest_frame, twilio, smsconf, fvars, nextId, uvars,
                   wframe, wpose, hands_up, avars, rvars, rwin, hvars>>

\* with frame_lock: (entry)
WAcquire ==
    /\ wpc = "acquire"
    /\ lock = Free
    /\ WGoto("copy")
    /\ UNCHANGED <<wseen, slot, latest_frame, twilio, smsconf, fvars, nextId, uvars,
                   wframe, wpose, hands_up, avars, rvars, rwin, hvars>>

\* frame = latest_frame_to_process.copy(); None has no copy(): the
\* AttributeError ends the thread.
WCopy ==
    /\ wpc = "copy"
    /\ IF slot = None
       THEN /\ WGoto("dead")
            /\ UNCHANGED <<wframe, procCount>>
       ELSE /\ WGoto("clear")
            /\ wframe' = slot
            /\ procCount' = [procCount EXCEPT ![slot.id] = IF @ < 2 THEN @ + 1 ELSE @]
    /\ UNCHANGED <<wseen, slot, latest_frame, twilio, smsconf, fvars, nextId, uvars, wpose,
                   hands_up, avars, rvars, rwin, lastPub, fate>>

\* Faulty variant: the slot is not cleared.
AfterTakeKeep(s) == s
\* The slot after the worker's take.
AfterTake(s) == None

\* latest_frame_to_process = None, the end of the with block.
WClear ==
    /\ wpc = "clear"
    /\ slot' = AfterTake(slot)
    /\ wseen' = 0
    /\ WGoto("persist")
    /\ UNCHANGED <<latest_frame, twilio, smsconf, fvars, nextId, uvars, wframe, wpose,
                   hands_up, avars, rvars, rwin, hvars>>

\* ------------------------------------------------------------------ process_frame()
\* ts = int(time.time()): the second of the previous save, or the next
\* one (seconds in which no frame is saved are not counted).
Timestamps == {now} \cup {t \in Seconds : t = now + 1 /\ files[now] # 0}

\* cv2.imwrite(frame_path, frame): the file frame_{ts}.jpg is created, or
\* replaced when it exists.
SaveFile(fs, ts, f) == [fs EXCEPT ![ts] = f]

\* ts = int(time.time()); frame_path = ...; cv2.imwrite(frame_path, frame)
WPersist ==
    /\ wpc = "persist"
    /\ \E ts \in Timestamps :
        /\ now' = ts
        /\ path' = [path EXCEPT ![wframe.id] = ts]
        /\ files' = SaveFile(files, ts, wframe.id)
    /\ WGoto("estimate")
    /\ UNCHANGED <<wseen, slot, latest_frame, twilio, smsconf, attached, nextId, uvars,
                   wframe, wpose, hands_up, avars, rvars, rwin, hvars>>

\* results = pose.process(image_rgb) returns: no landmarks, or a pose.
WEstimate ==
    /\ wpc = "estimate"
    /\ \E p \in PoseSamples \cup {NoPose} :
        /\ wpose' = p
        /\ WGoto(IF p = NoPose THEN "store_raw" ELSE "heur")
    /\ UNCHANGED <<wseen, slot, latest_frame, twilio, smsconf, fvars, nextId, uvars,
                   wframe, hands_up, avars, rvars, rwin, hvars>>

\* pose.process raises: neither process_frame nor frame_worker catches, so
\* the exception ends the worker thread.
WEstimateFault ==
    /\ wpc = "estimate"
    /\ WGoto("dead")
    /\ UNCHANGED <<wseen, slot, latest_frame, twilio, smsconf, fvars, nextId, uvars,
                   wframe, wpose, hands_up, avars, rvars, rwin, hvars>>

\* Faulty variant: the frame stored is the frame as it was uploaded.
StoreLatestRaw(f) ==
    /\ latest_frame' = RawFrame(f.id)
    /\ rwin' = [r \in Readers |-> IF rpc[r] = "load" THEN rwin[r] \cup {RawFrame(f.id)}
                                                      ELSE rwin[r]]

\* Replace: latest_frame = frame.copy(); calls of latest() in progress
\* that have not loaded latest_frame yet may see the new value.
StoreLatest(f) ==
    /\ latest_frame' = f
    /\ rwin' = [r \in Readers |-> IF rpc[r] = "load" THEN rwin[r] \cup {f} ELSE rwin[r]]

\* No pose: latest_frame = frame.copy(); return
WStoreRaw ==
    /\ wpc = "store_raw"
    /\ StoreLatest(wframe)
    /\ WGoto("check")
    /\ wframe' = None
    /\ wpose' = NoPose
    /\ UNCHANGED <<wseen, slot, twilio, smsconf, fvars, nextId, uvars, hands_up, avars,
                   rvars, hvars>>

\* margin_left, margin_right, hands_up
WHeur ==
    /\ wpc = "heur"
    /\ hands_up' = HandsUp(wpose)
    /\ WGoto("draw")
    /\ UNCHANGED <<wseen, slot, latest_frame, twilio, smsconf, fvars, nextId, uvars,
                   wframe, wpose, avars, rvars, rwin, hvars>>

\* Faulty variant: latest_frame is the array being drawn on.
DrawOnLatest(f) == f
\* What a piece of drawing (leaving the worker's frame as f) does to
\* latest_frame: nothing, the overlay is drawn on the worker's own frame.
DrawKeepsLatest(f) == latest_frame

\* drawer.draw_landmarks(frame, ...): one more piece of the overlay.
WDraw ==
    /\ wpc = "draw"
    /\ wframe.ann < AnnFull
    /\ wframe' = [wframe EXCEPT !.ann = @ + 1]
    /\ latest_frame' = DrawKeepsLatest(wframe')
    /\ WGoto(IF wframe'.ann = AnnFull THEN "store" ELSE "draw")
    /\ UNCHANGED <<wseen, slot, twilio, smsconf, fvars, nextId, uvars, wpose, hands_up,
                   avars, rvars, rwin, hvars>>

\* Faulty variant: no new alert once an alert has been raised.
AlertDueOnce == hands_up /\ \A a \in FrameIds : email[a] = "none"
\* if hands_up: the alert threads are started.
AlertDue == hands_up

\* latest_frame = frame.copy(); if hands_up: ...
WStore ==
    /\ wpc = "store"
    /\ StoreLatest(wframe)
    /\ WGoto(IF AlertDue THEN "spawn_email" ELSE "check")
    /\ IF AlertDue
       THEN UNCHANGED <<wframe, wpose, hands_up>>
       ELSE wframe' = None /\ wpose' = NoPose /\ hands_up' = FALSE
    /\ UNCHANGED <<wseen, slot, twilio, smsconf, fvars, nextId, uvars, avars, rvars,
                   hvars>>

\* threading.Thread(target=send_email, args=(frame_path,)).start()
WSpawnEmail ==
    /\ wpc = "spawn_email"
    /\ email' = [email EXCEPT ![wframe.id] = "run"]
    /\ WGoto("spawn_sms")
    /\ UNCHANGED <<wseen, slot, latest_frame, twilio, smsconf, fvars, nextId, uvars,
                   wframe, wpose, hands_up, sms, rvars, rwin, hvars>>

\* Faulty variant: the SMS is sent only once the email has gone out.
SmsAfterEmailSent(a) == email[a] = "sent"
\* Faulty variant: the worker joins the email thread before going on.
SmsAfterEmailJoined(a) == email[a] \in {"sent", "failed"}
\* Whether the worker may start the SMS thread of alert a: always.
SmsSpawnable(a) == TRUE

\* threading.Thread(target=send_sms).start(); process_frame returns.
WSpawnSms ==
    /\ wpc = "spawn_sms"
    /\ SmsSpawnable(wframe.id)
    /\ sms' = [sms EXCEPT ![wframe.id] = "run"]
    /\ WGoto("check")
    /\ wframe' = None
    /\ wpose' = NoPose
    /\ hands_up' = FALSE
    /\ UNCHANGED <<wseen, slot, latest_frame, twilio, smsconf, fvars, nextId, uvars, email,
                   rvars, rwin, hvars>>

\* ------------------------------------------------------------------ alerts
\* send_email: the file at image_path is read into the message; the try
\* block ends with "Email sent", or an exception is caught and printed.
SendEmail(a) ==
    /\ email[a] = "run"
    /\ attached' = [attached EXCEPT ![a] = files[path[a]]]
    /\ \E r \in {"sent", "failed"} : email' = [email EXCEPT ![a] = r]
    /\ UNCHANGED <<slot, latest_frame, lock, twilio, smsconf, now, files, path, nextId,
                   uvars, wvars, sms, rvars, rwin, hvars>>

\* The outcomes of the try block of send_sms, which is entered whatever the
\* TWILIO_* values are: TwilioClient(TWILIO_SID, TWILIO_AUTH) and
\* client.messages.create(...) are called, and with a value missing the
\* call raises.
SmsAttempt == IF smsconf THEN {"sent", "failed"} ELSE {"failed"}

\* send_sms: returns at once when TwilioClient is None; otherwise the try
\* block ends with "SMS sent", or an exception is caught and printed.
SendSms(a) ==
    /\ sms[a] = "run"
    /\ IF ~twilio
       THEN sms' = [sms EXCEPT ![a] = "skipped"]
       ELSE \E r \in SmsAttempt : sms' = [sms EXCEPT ![a] = r]
    /\ UNCHANGED <<slot, latest_frame, lock, twilio, smsconf, fvars, nextId, uvars, wvars,
                   email, rvars, rwin, hvars>>

\* ------------------------------------------------------------------ latest()
\* A GET /latest.jpg request arrives.
ReadBegin(r) ==
    /\ rpc[r] = "idle"
    /\ rpc' = [rpc EXCEPT ![r] = "load"]
    /\ rwin' = [rwin EXCEPT ![r] = {latest_frame}]
    /\ UNCHANGED <<slot, latest_frame, lock, twilio, smsconf, fvars, nextId, uvars, wvars,
                   avars, robs, hvars>>

\* The argument of cv2.imencode: one load of the global latest_frame.
ReadLoad(r) ==
    /\ rpc[r] = "load"
    /\ robs' = [robs EXCEPT ![r] = latest_frame]
    /\ rpc' = [rpc EXCEPT ![r] = "encode"]
    /\ UNCHANGED <<slot, latest_frame, lock, twilio, smsconf, fvars, nextId, uvars, wvars,
                   avars, rwin, hvars>>

\* cv2.imencode of the loaded array, and the response.
ReadEncode(r) ==
    /\ rpc[r] = "encode"
    /\ rpc' = [rpc EXCEPT ![r] = "idle"]
    /\ robs' = [robs EXCEPT ![r] = None]
    /\ rwin' = [rwin EXCEPT ![r] = {}]
    /\ UNCHANGED <<slot, latest_frame, lock, twilio, smsconf, fvars, nextId, uvars, wvars,
                   avars, hvars>>

\* ------------------------------------------------------------------ specification
Upload(u) == UploadBegin(u) \/ UploadDecode(u) \/ UploadAcquire(u) \/ UploadWrite(u)
Worker ==
    \/ WCheck \/ WSleep \/ WAcquire \/ WCopy \/ WClear
    \/ WPersist \/ WEstimate \/ WEstimateFault \/ WStoreRaw \/ WHeur \/ WDraw \/ WStore
    \/ WSpawnEmail \/ WSpawnSms
Alert(a) == SendEmail(a) \/ SendSms(a)
Read(r) == ReadBegin(r) \/ ReadLoad(r) \/ ReadEncode(r)

Next ==
    \/ \E u \in Uploaders : Upload(u)
    \/ Worker
    \/ \E a \in FrameIds : Alert(a)
    \/ \E r \in Readers : Read(r)

Spec == Init /\ [][Next]_vars

\* The threads of latest() write only rpc, robs and rwin, and the alert
\* threads only email, sms and attached; no other thread reads those.  Leaving one of
\* the two groups out removes no behaviour of the remaining variables.
PipeNext ==
    \/ \E u \in Uploaders : Upload(u)
    \/ Worker
    \/ \E a \in FrameIds : Alert(a)
PipeSpec == Init /\ [][PipeNext]_vars

ViewNext ==
    \/ \E u \in Uploaders : Upload(u)
    \/ Worker
    \/ \E r \in Readers : Read(r)
ViewSpec == Init /\ [][ViewNext]_vars

\* The store and its readers; one upload handler feeds the slot (the
\* store is written by the worker only).
StoreNext ==
    \/ Upload("u1")
    \/ Worker
    \/ \E r \in Readers : Read(r)
StoreSpec == Init /\ [][StoreNext]_vars

\* Scheduling: every handler thread, every alert thread and the worker get
\* to run their next statement, except that nothing makes the estimator
\* call return (pose.process has no timeout), so WEstimate is not fair.
\* The number of publishes is bounded, so a thread waiting for frame_lock
\* finds it free from some point on and weak fairness gives it the lock.
WorkerTake == WCheck \/ WSleep \/ WAcquire \/ WCopy \/ WClear
WorkerFinish == WPersist \/ WStoreRaw \/ WHeur \/ WDraw \/ WStore \/ WSpawnEmail \/ WSpawnSms
IngestFairness ==
    /\ \A u \in Uploaders : WF_vars(UploadDecode(u) \/ UploadAcquire(u) \/ UploadWrite(u))
    /\ WF_vars(WorkerTake)
    /\ WF_vars(WorkerFinish)
AlertFairness == \A a \in FrameIds : WF_vars(SendEmail(a)) /\ WF_vars(SendSms(a))

\* The hand-off between the upload handlers and the worker, under fair
\* scheduling.  TwilioClient and the TWILIO_* values are read by send_sms
\* alone, which is not part of the hand-off: one environment stands for all.
IngestInit == Init /\ twilio /\ smsconf
IngestNext ==
    \/ \E u \in Uploaders : Upload(u)
    \/ Worker
IngestFair == IngestInit /\ [][IngestNext]_vars /\ IngestFairness

\* The worker and the alert threads under fair scheduling; one upload
\* handler feeds the slot (uploads reach the worker only through the slot).
AlertNext ==
    \/ Upload("u1")
    \/ Worker
    \/ \E a \in FrameIds : Alert(a)
AlertFair == Init /\ [][AlertNext]_vars /\ IngestFairness /\ AlertFairness

\* The hand-off when every estimator call returns a result: WEstimate is
\* fair and pose.process does not raise.
ReturnNext ==
    \/ \E u \in Uploaders : Upload(u)
    \/ WorkerTake \/ WorkerFinish \/ WEstimate
ReturnFair == IngestInit /\ [][ReturnNext]_vars /\ IngestFairness /\ WF_vars(WEstimate)

\* The same threads when nothing makes an alert thread finish (SMTP and the
\* SMS provider may hang): only the handlers and the worker are fair.
DispatchFair == Init /\ [][AlertNext]_vars /\ IngestFairness

\* The heuristic on its own: the worker has taken the first frame and the
\* estimator has returned any pose of the grid.
HeurInit ==
    /\ slot = None
    /\ latest_frame = Blank
    /\ lock = Free
    /\ twilio \in BOOLEAN
    /\ smsconf \in BOOLEAN
    /\ nextId = 2
    /\ upc = [u \in Uploaders |-> "idle"]
    /\ ubytes = [u \in Uploaders |-> "none"]
    /\ uframe = [u \in Uploaders |-> None]
    /\ ret = [u \in Uploaders |-> IF u = "u1" THEN "OK" ELSE "none"]
    /\ wpc = "heur"
    /\ wframe = RawFrame(1)
    /\ wpose \in GridPoses
    /\ hands_up = FALSE
    /\ wseen = 0
    /\ email = [a \in FrameIds |-> "none"]
    /\ sms = [a \in FrameIds |-> "none"]
    /\ now = 1
    /\ files = [t \in Seconds |-> IF t = 1 THEN 1 ELSE 0]
    /\ path = [f \in FrameIds |-> IF f = 1 THEN 1 ELSE 0]
    /\ attached = [a \in FrameIds |-> 0]
    /\ rpc = [r \in Readers |-> "idle"]
    /\ robs = [r \in Readers |-> None]
    /\ rwin = [r \in Readers |-> {}]
    /\ lastPub = 1
    /\ fate = [f \in FrameIds |-> IF f = 1 THEN "published" ELSE "new"]
    /\ procCount = [f \in FrameIds |-> IF f = 1 THEN 1 ELSE 0]
HeurNext == WHeur
HeurSpec == HeurInit /\ [][HeurNext]_vars

\* ------------------------------------------------------------------ claims

\* C1: the slot holds at most one pending frame, and it is the frame of the
\* last publish; the frame the worker has copied under the lock is the one
\* written by the last publish before the take, so no earlier one of the
\* frames published since the previous take can be retrieved.
C1_Freshness ==
    /\ slot = None \/ (slot \in Frames /\ slot = RawFrame(lastPub))
    /\ wpc = "clear" => wframe = RawFrame(lastPub)
\* Two publishes without a take in between, the later one by the upload
\* that decoded first; the worker has then taken frame 1, frame 2 is gone.
C1_Witness == wpc = "clear" /\ wframe.id = 1 /\ fate[2] = "overwritten"

\* C2: the step in which upload() finds that its bytes decode to no frame
\* (imdecode returns None or raises) returns 500 and leaves the slot and
\* latest_frame as they were.
C2_DecodeFailureIsolation ==
    [][\A u \in Uploaders :
          (upc[u] = "decode" /\ Decode(ubytes[u]) # "frame" /\ upc'[u] # "decode")
          => (ret'[u] = "500" /\ upc'[u] = "idle" /\ slot' = slot
              /\ latest_frame' = latest_frame)]_vars
\* A failed upload has returned while a frame is pending in the slot and a
\* processed frame is in the store.
C2_Witness ==
    \E u \in Uploaders :
        ret[u] = "500" /\ upc[u] = "idle" /\ slot # None /\ latest_frame # Blank

\* C3: a fault of the estimator call is not fatal to the worker: the worker
\* thread never ends, so that it can take the frames published afterwards.
C3_EstimatorFaultNotFatal == wpc # "dead"

\* C4: the array a call of latest() encodes is one complete frame (raw, or
\* with the whole overlay), and it is a value latest_frame held when the
\* call began or one a Replace stored during the call.
C4_StoreAtomicity ==
    \A r \in Readers :
        rpc[r] = "encode" =>
            /\ robs[r] # None
            /\ Complete(robs[r])
            /\ robs[r] \in rwin[r]
\* A reader has loaded the annotated frame that replaced the value it
\* started with, while the worker is half way through drawing on the next.
C4_Witness ==
    \E r \in Readers :
        /\ rpc[r] = "encode" /\ Cardinality(rwin[r]) >= 2 /\ robs[r].ann = AnnFull
        /\ wpc = "draw" /\ wframe.ann = 1

\* C5: an upload that has decoded its frame and starts publishing always
\* gets to return OK, whatever the worker does, also when the estimator
\* call never returns.
C5_NonBlockingPublish ==
    \A u \in Uploaders :
        (upc[u] \in {"wait", "locked"}) ~> (upc[u] = "idle" /\ ret[u] = "OK")
\* An upload has returned OK and its frame is pending while the worker is
\* inside the estimator call.
C5_Witness ==
    \E u \in Uploaders :
        upc[u] = "idle" /\ ret[u] = "OK" /\ wpc = "estimate" /\ slot # None

\* C6: the worker does not hold frame_lock while it persists a frame or
\* calls the estimator, it holds it only for the copy and the clear; an
\* upload holds it only for its slot write; no alert thread ever holds it.
C6_NoIOUnderLock ==
    /\ lock \in {Free, "worker"} \cup Uploaders
    /\ wpc \in {"persist", "estimate", "spawn_email", "spawn_sms"} => lock # "worker"
    /\ lock = "worker" => wpc \in {"copy", "clear"}
    /\ \A u \in Uploaders : lock = u => upc[u] = "locked"
\* The worker is inside the estimator call while an upload holds the lock
\* for its slot write.
C6_Witness ==
    /\ wpc = "estimate"
    /\ \E u \in Uploaders : lock = u /\ upc[u] = "locked"

\* The claim's statement of a raised side, wrist.y + 0.2*|shoulder.y -
\* wrist.y| < shoulder.y, multiplied by 5 (coordinates in hundredths).
ClaimRaised(s, w) == 5 * w + Abs(s - w) < 5 * s

\* C7: the result process_frame computes is true iff both sides are raised;
\* the literal cases of the specification come out as it says.
C7_HandsUpHeuristic ==
    wpc = "draw" =>
        /\ hands_up = (ClaimRaised(wpose.ls, wpose.lw) /\ ClaimRaised(wpose.rs, wpose.rw))
        /\ wpose = Pose(30, 10, 30, 10) => hands_up
        /\ wpose = Pose(30, 28, 30, 28) => hands_up
        /\ (wpose.rs = 30 /\ wpose.rw = 35) => ~hands_up
        /\ (wpose.ls = 30 /\ wpose.lw = 35) => ~hands_up
\* The boundary case has been evaluated: shoulders 0.30, wrists 0.28.
C7_Witness == wpc = "draw" /\ wpose = Pose(30, 28, 30, 28) /\ hands_up

\* C8 as stated: among the poses the worker evaluates there is one with a
\* wrist strictly above its shoulder whose side is not counted as raised,
\* so that the result is false.
C8_MarginIsHysteresis ==
    \E p \in GridPoses :
        /\ wpose \in GridPoses
        /\ p.lw < p.ls
        /\ ~SideUp(p.ls, p.lw)
        /\ ~HandsUp(p)
\* C8 amended: the margin excludes no pose: a side whose wrist is strictly
\* above its shoulder is counted as raised however near level the arm is,
\* so the result is true whenever both wrists are strictly above.
C8_MarginExcludesNothing ==
    wpc = "draw" =>
        ((wpose.lw < wpose.ls /\ wpose.rw < wpose.rs) => hands_up)
\* Near-level arms have been evaluated: wrists one hundredth above.
C8_Witness == wpc = "draw" /\ wpose = Pose(30, 29, 30, 29) /\ hands_up

AlertDone == {"sent", "failed", "skipped"}

\* C9: a step of one channel's thread changes neither the other channel
\* nor the worker nor the slot, the store or the lock; the email attempt is
\* made whenever the SMS one is; an attempt that is over stays as it ended;
\* each attempt completes whatever became of the other channel (from some
\* point on every alert with a failed or skipped channel has the other
\* channel's attempt over); and the worker goes on to its next cycle.
C9_AlertIsolation ==
    /\ [](\A a \in FrameIds : sms[a] # "none" => email[a] # "none")
    /\ [][\A a \in FrameIds :
            /\ (sms[a] = "run" /\ sms'[a] # "run")
                 => UNCHANGED <<email, wvars, slot, latest_frame, lock>>
            /\ (email[a] = "run" /\ email'[a] # "run")
                 => UNCHANGED <<sms, wvars, slot, latest_frame, lock>>
            /\ sms[a] \in AlertDone => sms'[a] = sms[a]
            /\ email[a] \in AlertDone => email'[a] = email[a]]_vars
    /\ <>[](/\ \A a \in FrameIds :
                /\ sms[a] \in {"failed", "skipped"} => email[a] \in AlertDone
                /\ email[a] = "failed" => sms[a] \in AlertDone
            /\ wpc \notin {"spawn_email", "spawn_sms"})
\* Both channels of the first alert have failed and the worker is in the
\* estimator call of the next frame.
C9_Witness ==
    /\ sms[1] = "failed" /\ email[1] = "failed"
    /\ wpc = "estimate" /\ wframe.id = 2

\* C10: no frame is taken twice; a frame the worker took was published and
\* not overwritten before; an overwritten frame is never taken; a published
\* frame that is neither is still the one in the slot.
C10_AtMostOnce ==
    /\ \A f \in FrameIds :
        /\ procCount[f] <= 1
        /\ procCount[f] = 1 => fate[f] = "published"
        /\ fate[f] = "overwritten" => procCount[f] = 0
        /\ (fate[f] = "published" /\ procCount[f] = 0) => slot = RawFrame(f)
    /\ wframe # None => (wframe.id \in FrameIds /\ procCount[wframe.id] = 1)
\* One frame was overwritten unconsumed, the other has been processed, and
\* the worker is idle again on an empty slot.
C10_Witness ==
    /\ \E f, g \in FrameIds : procCount[f] = 1 /\ fate[g] = "overwritten"
    /\ wpc = "sleep" /\ slot = None /\ latest_frame # Blank

\* C11: the alert threads are started by the worker only, in a cycle whose
\* pose was found and whose heuristic is true, one email thread and then one
\* SMS thread per such cycle, whatever earlier cycles did; a cycle without
\* a pose or with a false heuristic returns without starting any.
C11_AlertPerQualifyingCycle ==
    /\ [](wpc \in {"spawn_email", "spawn_sms"} =>
            /\ wpose # NoPose /\ HandsUp(wpose)
            /\ sms[wframe.id] = "none"
            /\ (wpc = "spawn_email") = (email[wframe.id] = "none"))
    /\ [][/\ (wpc = "store_raw" /\ wpc' # wpc) =>
                /\ wpc' = "check" /\ UNCHANGED <<email, sms>>
                /\ email[wframe.id] = "none" /\ sms[wframe.id] = "none"
          /\ (wpc = "store" /\ wpc' # wpc /\ ~HandsUp(wpose)) =>
                /\ wpc' = "check" /\ UNCHANGED <<email, sms>>
                /\ email[wframe.id] = "none" /\ sms[wframe.id] = "none"
          /\ (wpc = "store" /\ wpc' # wpc /\ HandsUp(wpose)) => wpc' = "spawn_email"
          /\ (wpc = "spawn_email" /\ wpc' # wpc) =>
                /\ wpc' = "spawn_sms" /\ sms' = sms
                /\ email' = [email EXCEPT ![wframe.id] = "run"]
          /\ (wpc = "spawn_sms" /\ wpc' # wpc) =>
                /\ wpc' = "check" /\ email' = email
                /\ sms' = [sms EXCEPT ![wframe.id] = "run"]
          /\ \A a \in FrameIds :
                /\ (email[a] = "none" /\ email'[a] # "none") =>
                      (wpc = "spawn_email" /\ wframe.id = a)
                /\ (sms[a] = "none" /\ sms'[a] # "none") =>
                      (wpc = "spawn_sms" /\ wframe.id = a)]_vars
\* Two qualifying cycles in a row: the second has started its two threads
\* although the alert of the first had been raised.
C11_Witness ==
    /\ email[1] # "none" /\ sms[1] # "none"
    /\ email[2] = "run" /\ sms[2] = "run"
    /\ wpc = "check"

\* C12: every decoded frame that was published has a file of its own once
\* it is out of the slot's hands, also when it was overwritten before the
\* worker took it; and the file written for a frame still holds that frame.
C12_AuditPersistence ==
    \A f \in FrameIds :
        /\ fate[f] = "overwritten" => \E t \in Seconds : files[t] = f
        /\ path[f] # 0 => files[path[f]] = f

\* C13: when a cycle of process_frame completes, latest_frame is that
\* cycle's output: the raw frame when no pose was found, the fully annotated
\* frame when a pose was found, whatever the heuristic said; latest_frame
\* changes at no other moment than a cycle's store, so it never goes back to
\* the output of an older cycle.
C13_LatestIsLastCompletedCycle ==
    [][LET out == [id |-> wframe.id, ann |-> IF wpose = NoPose THEN 0 ELSE AnnFull]
       IN  /\ (wpc \in {"store_raw", "store", "spawn_sms"} /\ wpc' = "check") =>
                /\ latest_frame' = out
                /\ (wpose = NoPose) = (wpc = "store_raw")
           /\ (latest_frame' # latest_frame) =>
                (wpc \in {"store_raw", "store"} /\ latest_frame' = out)]_vars
\* A no-pose cycle has completed after a hands-up cycle: latest_frame is
\* the raw second frame, not the annotated first one.
C13_Witness ==
    /\ email[1] # "none"
    /\ latest_frame = RawFrame(2)
    /\ wpc = "check"

\* C14: also when no alert thread ever finishes, a cycle whose estimator
\* call has returned runs to its end, through the start of its alert
\* threads, and the worker is back in its loop: asleep on an empty slot, or
\* with the next frame taken.
C14_FireAndForget ==
    (wpc \in {"store_raw", "heur", "draw", "store", "spawn_email", "spawn_sms"})
        ~> (wpc \in {"sleep", "persist"})
\* The threads of two alerts are all running and the worker has gone
\* through its loop to sleep.
C14_Witness ==
    /\ email[1] = "run" /\ sms[1] = "run"
    /\ email[2] = "run" /\ sms[2] = "run"
    /\ latest_frame.id = 2
    /\ wpc = "sleep"

\* C15: when the worker is scheduled fairly and every estimator call
\* returns, a frame in the slot is eventually taken by the worker or
\* overwritten by a newer publish; once the publishes have stopped, the last
\* published frame has been processed, its output is latest_frame, and the
\* worker idles on an empty slot from then on.
C15_EventualProcessing ==
    /\ \A f \in FrameIds :
          (slot = RawFrame(f)) ~> (procCount[f] = 1 \/ fate[f] = "overwritten")
    /\ <>[](/\ slot = None
            /\ wpc \in {"check", "sleep"}
            /\ latest_frame.id = lastPub
            /\ lastPub # 0 => procCount[lastPub] = 1)
\* All uploads have returned, the last published frame has been processed
\* and the worker sleeps on an empty slot.
C15_Witness ==
    /\ \A u \in Uploaders : upc[u] = "idle"
    /\ lastPub = 2 /\ procCount[2] = 1
    /\ latest_frame.id = 2
    /\ slot = None /\ wpc = "sleep"

\* C18: the margin never changes the outcome: for every pair of coordinates
\* the comparison with the margin and the plain comparison wrist.y <
\* shoulder.y agree, so the value process_frame computes is (left wrist
\* above left shoulder) and (right wrist above right shoulder).
C18_MarginNeverChangesOutcome ==
    wpc = "draw" =>
        /\ hands_up = (wpose.lw < wpose.ls /\ wpose.rw < wpose.rs)
        /\ \A s, w \in Coord :
              /\ SideUp(s, w) = (w < s)
              /\ ClaimRaised(s, w) = (w < s)
\* A pose with one arm exactly level and the other one hundredth above has
\* been evaluated: not hands up.
C18_Witness == wpc = "draw" /\ wpose = Pose(30, 30, 30, 29) /\ ~hands_up

\* C19: after the unlocked check found a frame, the slot is not empty when
\* the worker enters the locked section and copies (only the worker's clear
\* empties the slot), so the worker never dies on an empty slot; the frame
\* it takes is the one the check saw, or the last published one when the
\* one the check saw has been overwritten since.
C19_UnlockedCheckIsSafe ==
    /\ [](wpc \in {"acquire", "copy"} => (slot # None /\ wseen \in FrameIds))
    /\ [](wpc = "clear" =>
            /\ wframe # None
            /\ \/ wframe.id = wseen
               \/ fate[wseen] = "overwritten" /\ wframe.id = lastPub)
    /\ [](wpc = "dead" => wframe # None)
    /\ [][(slot # None /\ slot' = None) => wpc = "clear"]_vars
\* The worker has taken a frame newer than the one its check saw.
C19_Witness == wpc = "clear" /\ wseen \in FrameIds /\ wframe.id # wseen

\* C16: what the email thread of an alert has read from its image_path is
\* the frame of the cycle that raised the alert.
C16_EmailAttachesTriggeringFrame ==
    \A a \in FrameIds :
        email[a] \in {"sent", "failed"} => attached[a] = a

\* C17: when TwilioClient is missing or the TWILIO_* configuration is
\* absent, a finished SMS task has made no call of the provider's client: it
\* was skipped; and the email task of the same alert was started.
C17_SmsSkipWhenUnavailable ==
    \A a \in FrameIds :
        ((~twilio \/ ~smsconf) /\ sms[a] \in AlertDone) =>
            (sms[a] = "skipped" /\ email[a] # "none")

====
